---- MODULE Spec2Model ----
(***************************************************************************)
(* Model of the two experiment scripts of StocBio_hp:                      *)
(*   Meta-learning/MAML/fc100/maml.py       (script = "maml")              *)
(*   Meta-learning/ITD-BiO/fc100/ITD-BiO.py (script = "itd")               *)
(* The __main__ block runs main once per seed; main seeds the random       *)
(* sources, builds task sets, model and optimizer, and runs the outer      *)
(* loop; fast_adapt splits a batch, adapts a cloned learner and evaluates. *)
(*                                                                         *)
(* Tensors are abstracted: a parameter group holds a value of 0..ParamMod-1*)
(* and every library computation on tensors (forward pass, loss gradient,  *)
(* Adam update) is a fixed deterministic function of its arguments.        *)
(* Accuracies and gradients are exact rationals <<num, den>> in lowest     *)
(* terms.  The pseudo-random generators are explicit state: seeding sets   *)
(* the state, every draw returns the state and advances it.                *)
(***************************************************************************)
EXTENDS Integers, Sequences, FiniteSets, TLC

\* ------------------------------------------------------------------ bounds
MaxWays == 2
MaxShots == 2
MaxBsz == 2
MaxSteps == 2
MaxIters == 2
MaxRuns == 3
RngMod == 7
ParamMod == 5

\* the largest advance of the clock between two readings of time.time()
MaxTick == 2

\* ------------------------------------------------------------ small helpers
None == <<>>

RECURSIVE GCD(_, _)
GCD(a, b) == IF b = 0 THEN a ELSE GCD(b, a % b)

Abs(x) == IF x < 0 THEN -x ELSE x

\* a rational in lowest terms with a positive denominator
Rat(n, d) ==
  LET g == GCD(Abs(n), Abs(d))
      s == IF d < 0 THEN -1 ELSE 1
  IN  <<(s * n) \div g, (s * d) \div g>>

RatAdd(a, b) == Rat(a[1] * b[2] + b[1] * a[2], a[2] * b[2])

RatDivInt(a, m) == Rat(a[1], a[2] * m)

RECURSIVE RatSum(_)
RatSum(s) == IF s = <<>> THEN <<0, 1>> ELSE RatAdd(Head(s), RatSum(Tail(s)))

RECURSIVE Repeat(_, _)
Repeat(s, n) == IF n = 0 THEN <<>> ELSE s \o Repeat(s, n - 1)

\* ------------------------------------------------------------ the scripts
Scripts == {"maml", "itd"}
Groups == {"features", "head"}
Kinds == <<"train", "valid", "test">>

\* seeds = [42,52,62,72,82]
CodeSeeds == <<42, 52, 62, 72, 82>>

\* the __main__ constants, in thousandths: lr=0.001, fastlr=0.5 / 0.1, reg=0
CodeLr(s) == 1
CodeFastLr(s) == IF s = "maml" THEN 500 ELSE 100
CodeReg(s) == 0

\* ------------------------------------------------- str() and the file names
Digit(d) == <<"0", "1", "2", "3", "4", "5", "6", "7", "8", "9">>[d + 1]

\* str(n) of a non-negative int
RECURSIVE StrInt(_)
StrInt(n) == IF n < 10 THEN <<Digit(n)>> ELSE StrInt(n \div 10) \o <<Digit(n % 10)>>

\* the digits of a fraction given in thousandths, trailing zeros dropped
FracDigits(t) ==
  IF t % 1000 = 0 THEN <<"0">>
  ELSE IF t % 100 = 0 THEN <<Digit((t \div 100) % 10)>>
  ELSE IF t % 10 = 0 THEN <<Digit((t \div 100) % 10), Digit((t \div 10) % 10)>>
  ELSE <<Digit((t \div 100) % 10), Digit((t \div 10) % 10), Digit(t % 10)>>

\* str(x) of a non-negative float x = t / 1000 (0.001 <= x or x = 0)
StrFloat(t) == StrInt(t \div 1000) \o <<".">> \o FracDigits(t)

\* pstr = '_lr_' + str(lr) + '_fastlr_' + str(fastlr) + '_steps_' + str(stp)
\* (the same expression in both scripts: reg does not occur in it)
Pstr(s, lr, fastlr, stp, reg) ==
  <<"_lr_">> \o StrFloat(lr) \o <<"_fastlr_">> \o StrFloat(fastlr)
             \o <<"_steps_">> \o StrInt(stp)

OutputStems == <<"exp_data/train_accuracy", "exp_data/test_accuracy", "exp_data/run_time">>

\* the three names a run of the script opens, in order
FileNames(s, lr, fastlr, stp, reg) ==
  [k \in 1..3 |-> <<OutputStems[k]>> \o Pstr(s, lr, fastlr, stp, reg)]

\* ------------------------------------------------ fast_adapt: the index split
\* labels of a sampled batch: FusedNWaysKShots(n=ways, k=2*shots), remapped to
\* 0..ways-1, 2*shots consecutive examples per class; positions are 0-based
BatchLabels(w, sh) == [i \in 0..(2 * sh * w - 1) |-> i \div (2 * sh)]

\* mutant: the factor 2 forgotten
ArangeOnly(sh, w) == 0..(sh * w - 1)

\* np.arange(shots*ways) * 2
ArangeTimes2(sh, w) == {2 * k : k \in 0..(sh * w - 1)}

\* adaptation_indices = np.zeros(size, dtype=bool); adaptation_indices[idx] = True
\* (an index >= size raises IndexError: see SplitRaises)
AdaptationMask(size, sh, w) == [i \in 0..(size - 1) |-> i \in ArangeTimes2(sh, w)]

SplitRaises(size, sh, w) == \E i \in ArangeTimes2(sh, w) : i >= size

\* evaluation_indices = ~adaptation_indices
EvaluationMask(mask) == [i \in DOMAIN mask |-> ~mask[i]]

\* data[mask]: the selected positions, in increasing order
Selected(mask) ==
  SelectSeq([k \in 1..Cardinality(DOMAIN mask) |-> k - 1], LAMBDA i : mask[i])

\* ------------------------------------------- library computations, abstracted
\* a draw from a seeded generator returns its state and advances it
Advance(x) == (x + 3) % RngMod
SeedState(seed) == seed % RngMod

\* the parameter groups of the module the learners are cloned from:
\* maml = MAML(Sequential(features, Lambda, Linear)); head = MAML(Linear)
ClonedGroups(s) == IF s = "maml" THEN {"features", "head"} ELSE {"head"}

\* mutant: all_parameters = list(features.parameters()) + list(head.parameters())
OptimizerGroupsAll(s) == {"features", "head"}

\* opt = optim.Adam(maml.parameters(), meta_lr)
\* all_parameters = list(features.parameters()); Adam(all_parameters, lr=meta_lr)
OptimizerGroups(s) == IF s = "maml" THEN {"features", "head"} ELSE {"features"}

\* the parameters the evaluation error depends on (backward reaches them):
\* both groups in both scripts (ITD-BiO: data = features(data); learner = clone of head)
BackwardGroups(s) == {"features", "head"}

\* the value the forward pass of the (adapted) network depends on
NetValue(s, ps, lr) ==
  IF s = "maml" THEN lr["features"] + lr["head"] ELSE ps["features"] + lr["head"]

\* predictions.argmax(dim=1) for the example at position pos, an image of class
\* c: the network, a function of its parameters and the image, names the class
\* of the image or (for a third of the images) the next class
Predict(v, t, pos, c, w) == (c + (IF (v + t + pos \div 2) % 3 = 0 THEN 1 ELSE 0)) % w

\* accuracy(predictions, targets) = (predictions == targets).sum().float() / targets.size(0)
accuracy(predictions, targets) ==
  Rat(Cardinality({i \in 1..Len(targets) : predictions[i] = targets[i]}), Len(targets))

\* learner.adapt(train_error): one differentiable SGD step with lr = fast_lr on
\* the parameters of the clone.  train_error is the loss on the adaptation set
\* (maml.py: divided by len(adaptation_data); ITD-BiO.py: plus reg_lambda*l2_reg)
AdaptValue(s, v, t, nadapt, fastlr, reg) ==
  IF s = "maml" THEN (v + 1 + ((t + nadapt + fastlr \div 100) % 2)) % ParamMod
  ELSE (v + 1 + ((t + fastlr \div 100 + reg) % 2)) % ParamMod

\* d(evaluation_error)/d(group g), one task's contribution to p.grad: -1, 0 or 1
GradContribution(g, v, t) == ((v + t + (IF g = "head" THEN 1 ELSE 0)) % 3) - 1

\* Adam's update of one parameter from its gradient (the moment estimates,
\* rebuilt by every call of main, are not modelled): a step against the sign
AdamValue(v, g, lr) ==
  IF g = None \/ g[1] = 0 THEN v
  ELSE IF g[1] > 0 THEN (v + ParamMod - 1) % ParamMod
  ELSE (v + 1) % ParamMod

\* ------------------------------------------------------------------- state
VARIABLES
  \* the constants of the __main__ block and the defaults of main
  script, seeds, ways, shots, meta_batch_size, adaptation_steps, num_iterations,
  meta_lr, fast_lr, reg_lambda,
  \* the environment: torch.cuda.device_count(), the advances of time.time()
  device_count, ticks, clock,
  \* the global generators: random, numpy.random, torch, torch.cuda
  rng,
  \* control: the statement about to run, the 1-based position of "for seed in
  \* seeds", where an exception was raised ("none", "main", "save")
  pc, run, raised,
  \* the lists of __main__ and the files written
  train_accuracy, test_accuracy_runs, run_time, files,
  \* main: device, model parameters, their .grad, the optimizer's parameters
  device, params, grad, opt_groups,
  \* main: the result arrays and start_time
  training_accuracy, test_accuracy, running_time, start_time,
  \* main: the loop variables (kind: 1 train, 2 valid, 3 test)
  iteration, task, kind,
  meta_train_accuracy, meta_valid_accuracy, meta_test_accuracy,
  \* fast_adapt and its results
  learner, batch, adaptation_indices, evaluation_indices, adaptation_data,
  adaptation_labels, evaluation_data, evaluation_labels, step,
  evaluation_accuracy, evaluation_error,
  \* history: the operations of the current iteration, the accuracies returned
  \* by fast_adapt in each iteration, the writes to the result arrays and the
  \* number of calls made by the current call of main, and the tasks drawn by
  \* each call of main
  log, iter_accs, writes, calls, sampled

hyper == <<script, seeds, ways, shots, meta_batch_size, adaptation_steps,
           num_iterations, meta_lr, fast_lr, reg_lambda, device_count, ticks>>
outer == <<train_accuracy, test_accuracy_runs, run_time, files>>
model == <<device, params, grad, opt_groups>>
arrays == <<training_accuracy, test_accuracy, running_time, start_time>>
loopv == <<iteration, task, kind>>
accs == <<meta_train_accuracy, meta_valid_accuracy, meta_test_accuracy>>
splitv == <<adaptation_indices, evaluation_indices, adaptation_data, adaptation_labels,
            evaluation_data, evaluation_labels>>
fa == <<learner, batch, splitv, step, evaluation_accuracy, evaluation_error>>
hist == <<log, iter_accs, writes, calls, sampled>>
vars == <<hyper, clock, rng, pc, run, raised, outer, model, arrays, loopv, accs, fa, hist>>

NoCalls == [fast_adapt |-> 0, sample |-> 0, adapt |-> 0, evaluate |-> 0, backward |-> 0,
            zero_grad |-> 0, step |-> 0]

\* the state before the first statement of the __main__ block, for a given
\* script and list of seeds
InitAt(s, sds, tk) ==
  /\ script = s
  /\ seeds = sds
  /\ meta_lr = CodeLr(s)
  /\ fast_lr = CodeFastLr(s)
  /\ reg_lambda = CodeReg(s)
  /\ device_count \in {0, 1}
  /\ ticks = tk
  /\ clock = 0
  /\ rng = [random |-> 0, numpy |-> 0, torch |-> 0, cuda |-> 0]
  /\ pc = "loop"
  /\ run = 1
  /\ raised = "none"
  /\ train_accuracy = <<>>
  /\ test_accuracy_runs = <<>>
  /\ run_time = <<>>
  /\ files = <<>>
  /\ device = "cpu"
  /\ params = [g \in Groups |-> 0]
  /\ grad = [g \in Groups |-> None]
  /\ opt_groups = {}
  /\ training_accuracy = <<>>
  /\ test_accuracy = <<>>
  /\ running_time = <<>>
  /\ start_time = 0
  /\ iteration = 0
  /\ task = 0
  /\ kind = 1
  /\ meta_train_accuracy = <<0, 1>>
  /\ meta_valid_accuracy = <<0, 1>>
  /\ meta_test_accuracy = <<0, 1>>
  /\ learner = [g \in {} |-> 0]
  /\ batch = [task |-> 0, labels |-> <<>>]
  /\ adaptation_indices = <<>>
  /\ evaluation_indices = <<>>
  /\ adaptation_data = <<>>
  /\ adaptation_labels = <<>>
  /\ evaluation_data = <<>>
  /\ evaluation_labels = <<>>
  /\ step = 0
  /\ evaluation_accuracy = <<0, 1>>
  /\ evaluation_error = [value |-> 0, task |-> 0]
  /\ log = <<>>
  /\ iter_accs = <<>>
  /\ writes = <<>>
  /\ calls = NoCalls
  /\ sampled = <<>>

\* the clock advances by one unit between two readings
InitWith(s, sds) == InitAt(s, sds, {1})

\* the scripts as written, with ways, shots, the meta-batch size, the number of
\* adaptation steps and the number of iterations scaled down
Init ==
  /\ \E s \in Scripts : InitWith(s, CodeSeeds)
  /\ ways \in 1..MaxWays
  /\ shots \in 1..MaxShots
  /\ meta_batch_size \in 1..MaxBsz
  /\ adaptation_steps \in 1..MaxSteps
  /\ num_iterations \in 1..MaxIters

\* ---------------------------------------------------------------- __main__
\* for seed in seeds: the loop has no seed left
LoopExhausted == run > Len(seeds)

\* mutant: random.seed(seed) left out
ReseedWithoutRandom(r, seed, ndev) ==
  [random |-> r.random, numpy |-> SeedState(seed), torch |-> SeedState(seed),
   cuda |-> SeedState(seed)]

\* random.seed(seed); np.random.seed(seed); torch.manual_seed(seed);
\* if cuda and torch.cuda.device_count(): torch.cuda.manual_seed(seed)
\* (torch.manual_seed seeds the CUDA generators as well)
Reseed(r, seed, ndev) ==
  [random |-> SeedState(seed), numpy |-> SeedState(seed), torch |-> SeedState(seed),
   cuda |-> SeedState(seed)]

\* mutant: the seeds taken from the end of the list
StartMainReversed ==
  /\ pc = "loop"
  /\ ~LoopExhausted
  /\ rng' = Reseed(rng, seeds[Len(seeds) + 1 - run], device_count)
  /\ device' = IF device_count > 0 THEN "cuda" ELSE "cpu"
  /\ pc' = "create"
  /\ log' = <<>>
  /\ iter_accs' = <<>>
  /\ writes' = <<>>
  /\ calls' = NoCalls
  /\ sampled' = Append(sampled, <<>>)
  /\ UNCHANGED <<hyper, clock, run, raised, outer, params, grad, opt_groups, arrays,
                 loopv, accs, fa>>

\* main(..., seed=seed), up to the choice of the device
StartMain ==
  /\ pc = "loop"
  /\ ~LoopExhausted
  /\ rng' = Reseed(rng, seeds[run], device_count)
  /\ device' = IF device_count > 0 THEN "cuda" ELSE "cpu"
  /\ pc' = "create"
  /\ log' = <<>>
  /\ iter_accs' = <<>>
  /\ writes' = <<>>
  /\ calls' = NoCalls
  /\ sampled' = Append(sampled, <<>>)
  /\ UNCHANGED <<hyper, clock, run, raised, outer, params, grad, opt_groups, arrays,
                 loopv, accs, fa>>

\* the parameters of a freshly built ConvBase and Linear: drawn from torch's generator
InitialParams(r) == [g \in Groups |->
  IF g = "features" THEN r.torch % ParamMod ELSE Advance(r.torch) % ParamMod]

\* torch.ones(num_iterations) / np.ones(num_iterations), 0-based
Ones(n, one) == [i \in 0..(n - 1) |-> one]

\* datasets, task sets, model, optimizer, loss, result arrays, start_time
CreateModel ==
  /\ pc = "create"
  /\ params' = InitialParams(rng)
  /\ rng' = [rng EXCEPT !.torch = Advance(Advance(rng.torch))]
  /\ grad' = [g \in Groups |-> None]
  /\ opt_groups' = OptimizerGroups(script)
  /\ training_accuracy' = Ones(num_iterations, <<1, 1>>)
  /\ test_accuracy' = Ones(num_iterations, <<1, 1>>)
  /\ running_time' = Ones(num_iterations, 1)
  /\ \E d \in ticks : /\ clock' = clock + d
                      /\ start_time' = clock + d
  /\ iteration' = 0
  /\ pc' = "iter"
  /\ UNCHANGED <<hyper, run, raised, outer, device, task, kind, accs, fa, hist>>

\* ------------------------------------------------------- main: the outer loop
\* mutant: the gradients are not cleared
NotZeroedGrad(gr, og) == gr

\* opt.zero_grad(): the .grad of every parameter of the optimizer that has one
\* is set to zero
ZeroedGrad(gr, og) == [g \in Groups |->
  IF g \in og /\ gr[g] # None THEN <<0, 1>> ELSE gr[g]]

\* for iteration in range(num_iterations): opt.zero_grad(); meta_* = 0.0
ZeroGrad ==
  /\ pc = "iter"
  /\ iteration < num_iterations
  /\ grad' = ZeroedGrad(grad, opt_groups)
  /\ meta_train_accuracy' = <<0, 1>>
  /\ meta_valid_accuracy' = <<0, 1>>
  /\ meta_test_accuracy' = <<0, 1>>
  /\ task' = 0
  /\ kind' = 1
  /\ pc' = "clone"
  /\ log' = << <<"zero_grad", 0>> >>
  /\ iter_accs' = Append(iter_accs, [k \in 1..3 |-> <<>>])
  /\ calls' = [calls EXCEPT !.zero_grad = @ + 1]
  /\ UNCHANGED <<hyper, clock, rng, run, raised, outer, device, params, opt_groups,
                 arrays, iteration, fa, writes, sampled>>

\* maml.clone() / head.clone(): a copy of the module's parameters
ClonedLearner(s, ps) == [g \in ClonedGroups(s) |-> ps[g]]

\* for task in range(meta_batch_size): learner = maml.clone()
Clone ==
  /\ pc = "clone"
  /\ task < meta_batch_size
  /\ learner' = ClonedLearner(script, params)
  /\ pc' = "sample"
  /\ log' = Append(log, <<"clone", kind, ClonedLearner(script, params)>>)
  /\ UNCHANGED <<hyper, clock, rng, run, raised, outer, model, arrays, loopv, accs,
                 batch, splitv, step,
                 evaluation_accuracy, evaluation_error, iter_accs, writes, calls,
                 sampled>>

\* mutant: the validation batch drawn from test_tasks
TaskSetValidFromTest(k) == IF k = 2 THEN "test" ELSE Kinds[k]

\* the task set sampled for the k-th fast_adapt of a task:
\* train_tasks, valid_tasks, test_tasks
TaskSetOf(k) == Kinds[k]

\* batch = <kind>_tasks.sample(): a task drawn with the random module
Sample ==
  /\ pc = "sample"
  /\ batch' = [task |-> rng.random, labels |-> BatchLabels(ways, shots)]
  /\ rng' = [rng EXCEPT !.random = Advance(rng.random)]
  /\ pc' = "split"
  /\ log' = Append(log, <<"sample", kind, TaskSetOf(kind)>>)
  /\ calls' = [calls EXCEPT !.sample = @ + 1]
  /\ sampled' = [sampled EXCEPT ![Len(sampled)] = Append(@, <<kind, rng.random>>)]
  /\ UNCHANGED <<hyper, clock, run, raised, outer, model, arrays, loopv, accs,
                 learner, splitv, step,
                 evaluation_accuracy, evaluation_error, iter_accs, writes>>

\* the labels at the given positions
LabelsAt(labels, positions) == [i \in 1..Len(positions) |-> labels[positions[i]]]

\* fast_adapt: separate data into adaptation/evaluation sets
Split ==
  /\ pc = "split"
  /\ ~SplitRaises(Cardinality(DOMAIN batch.labels), shots, ways)
  /\ adaptation_indices' = AdaptationMask(Cardinality(DOMAIN batch.labels), shots, ways)
  /\ evaluation_indices' = EvaluationMask(adaptation_indices')
  /\ adaptation_data' = Selected(adaptation_indices')
  /\ adaptation_labels' = LabelsAt(batch.labels, adaptation_data')
  /\ evaluation_data' = Selected(evaluation_indices')
  /\ evaluation_labels' = LabelsAt(batch.labels, evaluation_data')
  /\ step' = 0
  /\ pc' = "adapt"
  /\ log' = Append(log, <<"fast_adapt", kind>>)
  /\ calls' = [calls EXCEPT !.fast_adapt = @ + 1]
  /\ UNCHANGED <<hyper, clock, rng, run, raised, outer, model, arrays, loopv, accs,
                 learner, batch, evaluation_accuracy, evaluation_error, iter_accs,
                 writes, sampled>>

\* the examples the adapt steps compute train_error on
AdaptData == adaptation_data

\* the examples the adapted learner is evaluated on
EvalData == evaluation_data

\* learner.adapt(train_error) updates the clone
AdaptedLearner(s, lr, t, n, fastlr, reg) ==
  [g \in DOMAIN lr |-> AdaptValue(s, lr[g], t, n, fastlr, reg)]

\* mutant: the learner shares its parameters with the module (no copy)
ParamsAdaptedInPlace(ps, lr) == [g \in DOMAIN ps |-> IF g \in DOMAIN lr THEN lr[g] ELSE ps[g]]

\* learner.adapt(train_error) leaves the module it was cloned from as it is
ParamsAfterAdapt(ps, lr) == ps

\* for step in range(adaptation_steps): train_error = ...; learner.adapt(train_error)
Adapt ==
  /\ pc = "adapt"
  /\ step < adaptation_steps
  /\ learner' = AdaptedLearner(script, learner, batch.task, Len(AdaptData), fast_lr,
                               reg_lambda)
  /\ params' = ParamsAfterAdapt(params, learner')
  /\ step' = step + 1
  /\ log' = Append(log, <<"adapt", kind, AdaptData>>)
  /\ calls' = [calls EXCEPT !.adapt = @ + 1]
  /\ UNCHANGED <<hyper, clock, rng, pc, run, raised, outer, device, grad, opt_groups,
                 arrays, loopv, accs, batch, splitv,
                 evaluation_accuracy, evaluation_error, iter_accs, writes, sampled>>

\* predictions = learner(evaluation_data), as class labels
Predictions == [i \in 1..Len(EvalData) |->
  Predict(NetValue(script, params, learner), batch.task, EvalData[i],
          batch.labels[EvalData[i]], ways)]

\* predictions = learner(evaluation_data); valid_error = loss(predictions,
\* evaluation_labels); valid_accuracy = accuracy(predictions, evaluation_labels)
Evaluate ==
  /\ pc = "adapt"
  /\ step >= adaptation_steps
  /\ evaluation_accuracy' = accuracy(Predictions, evaluation_labels)
  /\ evaluation_error' = [value |-> NetValue(script, params, learner), task |-> batch.task]
  /\ iter_accs' = [iter_accs EXCEPT ![Len(iter_accs)][kind] =
                     Append(@, accuracy(Predictions, evaluation_labels))]
  /\ pc' = IF kind = 1 THEN "backward" ELSE "accumulate"
  /\ log' = Append(log, <<"evaluate", kind, EvalData>>)
  /\ calls' = [calls EXCEPT !.evaluate = @ + 1]
  /\ UNCHANGED <<hyper, clock, rng, run, raised, outer, model, arrays, loopv, accs,
                 learner, batch, splitv, step, writes,
                 sampled>>

\* one task's d(evaluation_error)/d(parameters)
Contribution(s, err) == [g \in BackwardGroups(s) |->
  <<GradContribution(g, err.value, err.task), 1>>]

\* evaluation_error.backward(): the contribution is added to .grad
AccumulatedGrad(gr, c) == [g \in Groups |->
  IF g \in DOMAIN c THEN (IF gr[g] = None THEN c[g] ELSE RatAdd(gr[g], c[g]))
  ELSE gr[g]]

\* evaluation_error.backward(), for the training task only
Backward ==
  /\ pc = "backward"
  /\ grad' = AccumulatedGrad(grad, Contribution(script, evaluation_error))
  /\ pc' = "accumulate"
  /\ log' = Append(log, <<"backward", kind, Contribution(script, evaluation_error)>>)
  /\ calls' = [calls EXCEPT !.backward = @ + 1]
  /\ UNCHANGED <<hyper, clock, rng, run, raised, outer, device, params, opt_groups,
                 arrays, loopv, accs, fa, iter_accs, writes, sampled>>

\* mutant: the averaging and the optimizer step indented into the task loop
AccumulateThenStep ==
  /\ pc = "accumulate"
  /\ meta_train_accuracy' =
       IF kind = 1 THEN RatAdd(meta_train_accuracy, evaluation_accuracy)
       ELSE meta_train_accuracy
  /\ meta_valid_accuracy' =
       IF kind = 2 THEN RatAdd(meta_valid_accuracy, evaluation_accuracy)
       ELSE meta_valid_accuracy
  /\ meta_test_accuracy' =
       IF kind = 3 THEN RatAdd(meta_test_accuracy, evaluation_accuracy)
       ELSE meta_test_accuracy
  /\ kind' = IF kind = 3 THEN 1 ELSE kind + 1
  /\ task' = IF kind = 3 THEN task + 1 ELSE task
  /\ pc' = IF kind = 3 THEN "scale" ELSE "clone"
  /\ UNCHANGED <<hyper, clock, rng, run, raised, outer, model, arrays, iteration, fa,
                 hist>>

\* meta_<kind>_accuracy += evaluation_accuracy.item(); on to the next fast_adapt
Accumulate ==
  /\ pc = "accumulate"
  /\ meta_train_accuracy' =
       IF kind = 1 THEN RatAdd(meta_train_accuracy, evaluation_accuracy)
       ELSE meta_train_accuracy
  /\ meta_valid_accuracy' =
       IF kind = 2 THEN RatAdd(meta_valid_accuracy, evaluation_accuracy)
       ELSE meta_valid_accuracy
  /\ meta_test_accuracy' =
       IF kind = 3 THEN RatAdd(meta_test_accuracy, evaluation_accuracy)
       ELSE meta_test_accuracy
  /\ kind' = IF kind = 3 THEN 1 ELSE kind + 1
  /\ task' = IF kind = 3 THEN task + 1 ELSE task
  /\ pc' = "clone"
  /\ UNCHANGED <<hyper, clock, rng, run, raised, outer, model, arrays, iteration, fa,
                 hist>>

\* mutant: the test entry taken from the validation accumulator
RecordAccuracyValid ==
  /\ pc = "clone"
  /\ task >= meta_batch_size
  /\ training_accuracy' = [training_accuracy EXCEPT ![iteration] =
                             RatDivInt(meta_train_accuracy, meta_batch_size)]
  /\ test_accuracy' = [test_accuracy EXCEPT ![iteration] =
                         RatDivInt(meta_valid_accuracy, meta_batch_size)]
  /\ writes' = writes \o << <<"training_accuracy", iteration, iteration>>,
                            <<"test_accuracy", iteration, iteration>> >>
  /\ pc' = "scale"
  /\ UNCHANGED <<hyper, clock, rng, run, raised, outer, model, running_time,
                 start_time, loopv, accs, fa, log, iter_accs, calls, sampled>>

\* training_accuracy[iteration] = meta_train_accuracy / meta_batch_size
\* test_accuracy[iteration] = meta_test_accuracy / meta_batch_size
RecordAccuracy ==
  /\ pc = "clone"
  /\ task >= meta_batch_size
  /\ training_accuracy' = [training_accuracy EXCEPT ![iteration] =
                             RatDivInt(meta_train_accuracy, meta_batch_size)]
  /\ test_accuracy' = [test_accuracy EXCEPT ![iteration] =
                         RatDivInt(meta_test_accuracy, meta_batch_size)]
  /\ writes' = writes \o << <<"training_accuracy", iteration, iteration>>,
                            <<"test_accuracy", iteration, iteration>> >>
  /\ pc' = "scale"
  /\ UNCHANGED <<hyper, clock, rng, run, raised, outer, model, running_time,
                 start_time, loopv, accs, fa, log, iter_accs, calls, sampled>>

\* for p in maml.parameters() / all_parameters: p.grad.data.mul_(1.0 / meta_batch_size)
ScaledGrad(gr, og, m) == [g \in Groups |->
  IF g \in og THEN RatDivInt(gr[g], m) ELSE gr[g]]

\* average the accumulated gradients (a parameter without .grad raises)
ScaleGrads ==
  /\ pc = "scale"
  /\ \A g \in opt_groups : grad[g] # None
  /\ grad' = ScaledGrad(grad, opt_groups, meta_batch_size)
  /\ pc' = "opt_step"
  /\ log' = Append(log, <<"scale", 0>>)
  /\ UNCHANGED <<hyper, clock, rng, run, raised, outer, device, params, opt_groups,
                 arrays, loopv, accs, fa, iter_accs, writes, calls, sampled>>

\* opt.step(): Adam updates the parameters it was built with, from their .grad
SteppedParams(ps, gr, og, lr) == [g \in Groups |->
  IF g \in og THEN AdamValue(ps[g], gr[g], lr) ELSE ps[g]]

\* opt.step() / optimizer.step()
OptStep ==
  /\ pc = "opt_step"
  /\ params' = SteppedParams(params, grad, opt_groups, meta_lr)
  /\ pc' = "time"
  /\ log' = Append(log, <<"step", 0>>)
  /\ calls' = [calls EXCEPT !.step = @ + 1]
  /\ UNCHANGED <<hyper, clock, rng, run, raised, outer, device, grad, opt_groups,
                 arrays, loopv, accs, fa, iter_accs, writes, sampled>>

\* mutant: the start reading taken anew after every iteration
RecordTimePerIteration ==
  /\ pc = "time"
  /\ \E d \in ticks :
       /\ clock' = clock + d
       /\ running_time' = [running_time EXCEPT ![iteration] = (clock + d) - start_time]
       /\ start_time' = clock + d
  /\ writes' = Append(writes, <<"running_time", iteration, iteration>>)
  /\ iteration' = iteration + 1
  /\ pc' = "iter"
  /\ UNCHANGED <<hyper, rng, run, raised, outer, model, training_accuracy,
                 test_accuracy, task, kind, accs, fa, log, iter_accs,
                 calls, sampled>>

\* end_time = time.time(); running_time[iteration] = end_time - start_time
RecordTime ==
  /\ pc = "time"
  /\ \E d \in ticks :
       /\ clock' = clock + d
       /\ running_time' = [running_time EXCEPT ![iteration] = (clock + d) - start_time]
  /\ writes' = Append(writes, <<"running_time", iteration, iteration>>)
  /\ iteration' = iteration + 1
  /\ pc' = "iter"
  /\ UNCHANGED <<hyper, rng, run, raised, outer, model, training_accuracy,
                 test_accuracy, start_time, task, kind, accs, fa, log, iter_accs,
                 calls, sampled>>

\* mutant: the three files written inside the loop, after every seed
MainReturnSaving ==
  /\ pc = "iter"
  /\ iteration >= num_iterations
  /\ train_accuracy' = Append(train_accuracy, training_accuracy)
  /\ test_accuracy_runs' = Append(test_accuracy_runs, test_accuracy)
  /\ run_time' = Append(run_time, running_time)
  /\ files' = [k \in 1..3 |->
                 [name |-> <<"exp_data/train_accuracy", "exp_data/test_accuracy",
                             "exp_data/run_time">>[k],
                  content |-> <<Append(train_accuracy, training_accuracy),
                                Append(test_accuracy_runs, test_accuracy),
                                Append(run_time, running_time)>>[k]]]
  /\ run' = run + 1
  /\ pc' = IF run + 1 > Len(seeds) THEN "done" ELSE "loop"
  /\ UNCHANGED <<hyper, clock, rng, raised, model, arrays, loopv, accs, fa, hist>>

\* return training_accuracy.numpy(), test_accuracy.numpy(), running_time
\* and, in __main__, the three appends
MainReturn ==
  /\ pc = "iter"
  /\ iteration >= num_iterations
  /\ train_accuracy' = Append(train_accuracy, training_accuracy)
  /\ test_accuracy_runs' = Append(test_accuracy_runs, test_accuracy)
  /\ run_time' = Append(run_time, running_time)
  /\ run' = run + 1
  /\ pc' = "loop"
  /\ UNCHANGED <<hyper, clock, rng, raised, files, model, arrays, loopv, accs, fa,
                 hist>>

\* the list pickled into the k-th file
OutputList(k) ==
  IF k = 1 THEN train_accuracy ELSE IF k = 2 THEN test_accuracy_runs ELSE run_time

\* with open('exp_data/...' + pstr, 'wb') as f: pickle.dump(..., f), three times
SaveFile ==
  /\ pc = "loop"
  /\ LoopExhausted
  /\ LET k == Len(files) + 1
     IN  /\ files' = Append(files,
               [name |-> FileNames(script, meta_lr, fast_lr, adaptation_steps,
                                   reg_lambda)[k],
                content |-> OutputList(k)])
         /\ pc' = IF k = 3 THEN "done" ELSE "loop"
  /\ UNCHANGED <<hyper, clock, rng, run, raised, train_accuracy, test_accuracy_runs,
                 run_time, model, arrays, loopv, accs, fa, hist>>

\* the statements of main that call into a library
MainPcs == {"create", "iter", "clone", "sample", "split", "adapt", "backward",
            "accumulate", "scale", "opt_step", "time"}

\* a library call inside main raises: nothing catches it, the script ends
Raise ==
  /\ pc \in MainPcs
  /\ ~(pc = "iter" /\ iteration >= num_iterations)
  /\ raised' = "main"
  /\ pc' = "crashed"
  /\ UNCHANGED <<hyper, clock, rng, run, outer, model, arrays, loopv, accs, fa, hist>>

\* open() or pickle.dump() raises
RaiseSave ==
  /\ pc = "loop"
  /\ LoopExhausted
  /\ raised' = "save"
  /\ pc' = "crashed"
  /\ UNCHANGED <<hyper, clock, rng, run, outer, model, arrays, loopv, accs, fa, hist>>

Next ==
  \/ StartMain
  \/ CreateModel
  \/ ZeroGrad
  \/ Clone
  \/ Sample
  \/ Split
  \/ Adapt
  \/ Evaluate
  \/ Backward
  \/ Accumulate
  \/ RecordAccuracy
  \/ ScaleGrads
  \/ OptStep
  \/ RecordTime
  \/ MainReturn
  \/ SaveFile
  \/ Raise
  \/ RaiseSave

Spec == Init /\ [][Next]_vars

\* the steps of the script other than an exception being raised
Step ==
  \/ StartMain
  \/ CreateModel
  \/ ZeroGrad
  \/ Clone
  \/ Sample
  \/ Split
  \/ Adapt
  \/ Evaluate
  \/ Backward
  \/ Accumulate
  \/ RecordAccuracy
  \/ ScaleGrads
  \/ OptStep
  \/ RecordTime
  \/ MainReturn
  \/ SaveFile

\* one call of main (a list of one seed), for every choice of the meta-batch
\* size, the number of adaptation steps and the number of iterations
InitOneRun ==
  /\ \E s \in Scripts : InitWith(s, <<CodeSeeds[1]>>)
  /\ ways = MaxWays
  /\ shots = MaxShots
  /\ meta_batch_size \in 1..MaxBsz
  /\ adaptation_steps \in 1..MaxSteps
  /\ num_iterations \in 1..MaxIters

\* the interpreter runs the next statement whenever there is one: the script is
\* a single thread that never waits
FairSpec == InitOneRun /\ [][Next]_vars /\ WF_vars(Step)

\* main called repeatedly in one process with seeds that may repeat: the lists
\* of two to MaxRuns seeds over the first two seeds of the script
SeedLists == UNION {[1..n -> {CodeSeeds[1], CodeSeeds[2]}] : n \in 2..MaxRuns}

InitReseed ==
  /\ \E s \in Scripts : \E sds \in SeedLists : InitWith(s, sds)
  /\ ways = MaxWays
  /\ shots = MaxShots
  /\ meta_batch_size = MaxBsz
  /\ adaptation_steps \in 1..MaxSteps
  /\ num_iterations = MaxIters

SpecReseed == InitReseed /\ [][Next]_vars

\* the clock of time.time(): between two readings it stands still, advances by
\* one unit or by MaxTick units; a system clock that is set back may also go
\* back by one unit
ClockAdvances == {{0, 1, MaxTick}, {0 - 1, 0, MaxTick}}

\* two calls of main (the first two seeds), one task per iteration, under every
\* clock
InitClock ==
  /\ \E s \in Scripts : \E tk \in ClockAdvances : InitAt(s, SubSeq(CodeSeeds, 1, 2), tk)
  /\ ways = MaxWays
  /\ shots = MaxShots
  /\ meta_batch_size = 1
  /\ adaptation_steps = 1
  /\ num_iterations \in 1..MaxIters

SpecClock == InitClock /\ [][Next]_vars

\* ================================================================= properties
IsPrefix(a, b) == Len(a) <= Len(b) /\ \A i \in 1..Len(a) : a[i] = b[i]

\* an event of the log without its payload
OpKind(e) == <<e[1], e[2]>>

OpKinds(l) == [i \in 1..Len(l) |-> OpKind(l[i])]

\* -------------------------------------------------------------------------
\* C1: in every outer iteration the gradients are zeroed first; then each of
\* the meta_batch_size tasks samples a training task, adapts, evaluates and
\* back-propagates; then the gradients are scaled; then the optimizer is
\* stepped exactly once.  No step before all tasks are done, no backward
\* between the scaling and the step.
C1_Relevant(e) ==
  \/ e[1] \in {"zero_grad", "backward", "scale", "step"}
  \/ e[2] = 1 /\ e[1] \in {"sample", "adapt", "evaluate"}

C1_TrainTask ==
  << <<"sample", 1>> >> \o Repeat(<< <<"adapt", 1>> >>, adaptation_steps)
     \o << <<"evaluate", 1>>, <<"backward", 1>> >>

C1_Expected ==
  << <<"zero_grad", 0>> >> \o Repeat(C1_TrainTask, meta_batch_size)
     \o << <<"scale", 0>>, <<"step", 0>> >>

C1_IterationOrder ==
  LET seen == OpKinds(SelectSeq(log, C1_Relevant))
  IN  /\ IsPrefix(seen, C1_Expected)
      /\ pc = "time" => seen = C1_Expected
      /\ (\E i \in 1..Len(seen) : seen[i][1] = "step")
           => Len(SelectSeq(seen, LAMBDA e : e[1] = "backward")) = meta_batch_size

C1_Witness ==
  /\ pc = "time"
  /\ iteration = 1
  /\ meta_batch_size = 2
  /\ calls.step = 2
  /\ calls.backward = 4

\* -------------------------------------------------------------------------
\* C2 (as stated): the optimizer step updates the parameters of the module the
\* learners are cloned from (maml in maml.py, head in ITD-BiO.py) from their
\* accumulated gradients.
C2_StepUpdatesClonedModule ==
  [][(pc = "opt_step" /\ pc' = "time") =>
       \A g \in ClonedGroups(script) : params'[g] = AdamValue(params[g], grad[g], meta_lr)]_vars

\* C2 (amended): in maml.py the optimizer step updates the parameters of maml,
\* the module the learners are cloned from; in ITD-BiO.py it updates the
\* parameters of features, the feature extractor shared by all tasks, and
\* leaves the parameters of head, the module the learners are cloned from,
\* as they are.  Each updated parameter is stepped from its own gradient.
C2_UpdatedByStep == IF script = "maml" THEN {"features", "head"} ELSE {"features"}

C2_StepUpdates ==
  [][(pc = "opt_step" /\ pc' = "time") =>
       \A g \in Groups :
         params'[g] = IF g \in C2_UpdatedByStep
                      THEN AdamValue(params[g], grad[g], meta_lr)
                      ELSE params[g]]_vars

\* after a step of ITD-BiO.py with non-zero gradients on both groups
C2_Witness ==
  /\ pc = "time"
  /\ script = "itd"
  /\ grad["features"] # None /\ grad["features"][1] # 0
  /\ grad["head"] # None /\ grad["head"][1] # 0

\* -------------------------------------------------------------------------
\* C3: every call of fast_adapt receives a freshly cloned learner; the adapt
\* steps leave the shared parameters unchanged; within one outer iteration
\* all learners start from identical parameters; the shared parameters change
\* only at the optimizer step (and when main builds a new model).
C3_FreshClone ==
  (pc \in {"sample", "split"} \/ (pc = "adapt" /\ step = 0)) =>
     /\ DOMAIN learner = (IF script = "maml" THEN {"features", "head"} ELSE {"head"})
     /\ \A g \in DOMAIN learner : learner[g] = params[g]

C3_SameStart ==
  LET clones == SelectSeq(log, LAMBDA e : e[1] = "clone")
  IN  \A i, j \in 1..Len(clones) : clones[i][3] = clones[j][3]

C3_CloneOnly ==
  /\ [](C3_FreshClone /\ C3_SameStart)
  /\ [][(pc = "adapt" => params' = params)
        /\ (params' # params => pc \in {"opt_step", "create"})]_vars

\* the last learner of an iteration of two tasks has been adapted away from
\* the shared parameters
C3_Witness ==
  /\ pc = "scale"
  /\ meta_batch_size = 2
  /\ Len(SelectSeq(log, LAMBDA e : e[1] = "clone")) = 6
  /\ \E g \in DOMAIN learner : learner[g] # params[g]

\* -------------------------------------------------------------------------
\* C4: a batch of 2*shots*ways examples, 2*shots consecutive examples per
\* class, is split into the even positions 0, 2, ..., 2*(shots*ways-1)
\* (adaptation) and the other positions (evaluation): disjoint, covering the
\* batch, shots*ways examples each, every index within the batch, and shots
\* examples of every class on each side.
C4_Split ==
  LET size == 2 * shots * ways
      A == {i \in DOMAIN adaptation_indices : adaptation_indices[i]}
      E == {i \in DOMAIN evaluation_indices : evaluation_indices[i]}
  IN  /\ pc = "split" =>
           /\ DOMAIN batch.labels = 0..(size - 1)
           /\ \A k \in 0..(shots * ways - 1) : 2 * k \in DOMAIN batch.labels
      /\ pc = "adapt" =>
           /\ A = {i \in 0..(size - 1) : i % 2 = 0}
           /\ E = {i \in 0..(size - 1) : i % 2 = 1}
           /\ A \cap E = {}
           /\ A \cup E = DOMAIN batch.labels
           /\ Cardinality(A) = shots * ways
           /\ Cardinality(E) = shots * ways
           /\ \A c \in 0..(ways - 1) :
                /\ Cardinality({i \in A : batch.labels[i] = c}) = shots
                /\ Cardinality({i \in E : batch.labels[i] = c}) = shots

C4_Witness ==
  /\ pc = "adapt"
  /\ ways = 2
  /\ shots = 2
  /\ {i \in DOMAIN adaptation_indices : adaptation_indices[i]} = {0, 2, 4, 6}

\* -------------------------------------------------------------------------
\* C5: when main has returned, the three arrays have one entry per outer
\* iteration; entry i of each was written exactly once, in iteration i; the
\* accuracy entries are the sum of that iteration's per-task evaluation
\* accuracies (training tasks, test tasks) divided by the meta-batch size and
\* lie between 0 and 1.  The validation accuracies are in none of the arrays:
\* the test array holds the test tasks' mean, also where the validation tasks'
\* mean differs from it.
C5_WrittenOnce(name, i) ==
  LET w == SelectSeq(writes, LAMBDA e : e[1] = name /\ e[2] = i)
  IN  Len(w) = 1 /\ w[1][3] = i

C5_Between01(x) == 0 <= x[1] /\ x[1] <= x[2]

C5_Arrays ==
  (pc \in {"loop", "done"} /\ run > 1) =>
    LET r == Len(train_accuracy)
        idx == 0..(num_iterations - 1)
    IN  /\ r = run - 1
        /\ Len(test_accuracy_runs) = r
        /\ Len(run_time) = r
        /\ DOMAIN train_accuracy[r] = idx
        /\ DOMAIN test_accuracy_runs[r] = idx
        /\ DOMAIN run_time[r] = idx
        /\ Len(iter_accs) = num_iterations
        /\ \A i \in idx :
             /\ C5_WrittenOnce("training_accuracy", i)
             /\ C5_WrittenOnce("test_accuracy", i)
             /\ C5_WrittenOnce("running_time", i)
             /\ Len(iter_accs[i + 1][1]) = meta_batch_size
             /\ Len(iter_accs[i + 1][3]) = meta_batch_size
             /\ train_accuracy[r][i] =
                  Rat(RatSum(iter_accs[i + 1][1])[1],
                      RatSum(iter_accs[i + 1][1])[2] * meta_batch_size)
             /\ test_accuracy_runs[r][i] =
                  Rat(RatSum(iter_accs[i + 1][3])[1],
                      RatSum(iter_accs[i + 1][3])[2] * meta_batch_size)
             /\ C5_Between01(train_accuracy[r][i])
             /\ C5_Between01(test_accuracy_runs[r][i])

\* a returned run of two iterations whose test and validation accuracies differ
C5_Witness ==
  /\ pc = "loop"
  /\ run = 2
  /\ num_iterations = 2
  /\ meta_batch_size = 2
  /\ RatSum(iter_accs[2][2]) # RatSum(iter_accs[2][3])
  /\ train_accuracy[1][1] # <<1, 1>>

\* -------------------------------------------------------------------------
\* C6: the names of the three output files encode the hyperparameters of the
\* __main__ block: runs that differ in the meta learning rate, the fast
\* learning rate, the number of adaptation steps or (ITD-BiO.py) reg write to
\* different names, runs with equal hyperparameters to the same three names
\* under exp_data/.  Stated of the names a finished run has written, against
\* every other choice h of the constants.
C6_Hypers(s) ==
  [lr : {1, 3}, fastlr : {100, 500}, stp : 1..(MaxSteps + 1),
   reg : IF s = "itd" THEN {0, 10} ELSE {0}]

C6_NamesEncodeHypers ==
  pc = "done" =>
    LET written == [k \in 1..3 |-> files[k].name]
        mine == [lr |-> meta_lr, fastlr |-> fast_lr, stp |-> adaptation_steps,
                 reg |-> reg_lambda]
    IN  /\ \A k \in 1..3 : written[k][1] = OutputStems[k]
        /\ \A h \in C6_Hypers(script) :
             (FileNames(script, h.lr, h.fastlr, h.stp, h.reg) = written) <=> (h = mine)

\* -------------------------------------------------------------------------
\* C7: main re-seeds every random source at its start, so two calls of main
\* with the same seed (and the same hyperparameters) draw the same sequence
\* of tasks and return the same training- and test-accuracy arrays, whatever
\* calls of main ran before them in the process.
C7_Reseeded ==
  pc = "create" =>
    /\ rng.random = seeds[run] % RngMod
    /\ rng.numpy = seeds[run] % RngMod
    /\ rng.torch = seeds[run] % RngMod
    /\ device = "cuda" => rng.cuda = seeds[run] % RngMod

C7_SameSeedSameCurve ==
  /\ C7_Reseeded
  /\ \A i, j \in 1..Len(train_accuracy) :
       seeds[i] = seeds[j] =>
         /\ sampled[i] = sampled[j]
         /\ train_accuracy[i] = train_accuracy[j]
         /\ test_accuracy_runs[i] = test_accuracy_runs[j]

\* the first and third calls share a seed, the call between them has another,
\* and the curve of that other call differs
C7_Witness ==
  /\ Len(train_accuracy) = 3
  /\ seeds[1] = seeds[3]
  /\ seeds[2] # seeds[1]
  /\ sampled[2] # sampled[1]
  /\ train_accuracy[2] # train_accuracy[1]

\* -------------------------------------------------------------------------
\* C8: nothing retries or recovers.  When a call inside a run of main raises,
\* the script ends there: no later seed is run and none of the three files is
\* written, because the files are written only after the runs of all seeds
\* have returned; the results of the seeds already completed are lost.
C8_AfterRaise ==
  raised = "main" =>
    /\ pc = "crashed"
    /\ files = <<>>
    /\ run <= Len(seeds)
    /\ Len(train_accuracy) = run - 1
    /\ Len(sampled) = run

C8_FilesAfterAllSeeds ==
  files # <<>> =>
    /\ Len(train_accuracy) = Len(seeds)
    /\ Len(test_accuracy_runs) = Len(seeds)
    /\ Len(run_time) = Len(seeds)

C8_NoRecovery ==
  /\ [](C8_AfterRaise /\ C8_FilesAfterAllSeeds)
  /\ [][pc # "crashed" /\ (files' # files => run > Len(seeds))]_vars

\* the third seed's run raised: two finished runs are lost
C8_Witness ==
  /\ raised = "main"
  /\ run = 3
  /\ Len(train_accuracy) = 2
  /\ files = <<>>

\* -------------------------------------------------------------------------
\* C9: at each optimizer step, the gradient of every parameter the optimizer
\* updates is 1/meta_batch_size times the sum of the contributions of exactly
\* the meta_batch_size training tasks of the current iteration: validation and
\* test tasks never call backward, nothing is carried over from an earlier
\* iteration.
C9_Backwards == SelectSeq(log, LAMBDA e : e[1] = "backward")

C9_GradAtStep ==
  /\ \A i \in 1..Len(C9_Backwards) : C9_Backwards[i][2] = 1
  /\ pc = "opt_step" =>
       /\ Len(C9_Backwards) = meta_batch_size
       /\ \A g \in opt_groups :
            LET total == RatSum([i \in 1..Len(C9_Backwards) |-> C9_Backwards[i][3][g]])
            IN  grad[g] = Rat(total[1], total[2] * meta_batch_size)

\* the step of a second iteration, the first having left a non-zero gradient
C9_Witness ==
  /\ pc = "opt_step"
  /\ iteration = 1
  /\ meta_batch_size = 2
  /\ \E g \in opt_groups : grad[g][1] # 0
  /\ \E g \in opt_groups : params[g] # InitialParams([torch |-> SeedState(seeds[run])])[g]

\* -------------------------------------------------------------------------
\* C10: unless a library call raises, main terminates after exactly
\* num_iterations outer iterations; each iteration makes 3 * meta_batch_size
\* calls of fast_adapt in the repeating order train, validation, test, one task
\* drawn from the corresponding task set before each; each call makes exactly
\* adaptation_steps adapt steps, all on the adaptation set, then evaluates once
\* on the evaluation set.
C10_AdaptationSet == [i \in 1..(shots * ways) |-> 2 * (i - 1)]

C10_EvaluationSet == [i \in 1..(shots * ways) |-> 2 * i - 1]

C10_Call(k) ==
  << <<"sample", k, <<"train", "valid", "test">>[k]>>, <<"fast_adapt", k>> >>
     \o Repeat(<< <<"adapt", k, C10_AdaptationSet>> >>, adaptation_steps)
     \o << <<"evaluate", k, C10_EvaluationSet>> >>

C10_Expected == Repeat(C10_Call(1) \o C10_Call(2) \o C10_Call(3), meta_batch_size)

C10_Counts ==
  LET seen == SelectSeq(log, LAMBDA e : e[1] \in {"sample", "fast_adapt", "adapt", "evaluate"})
      n == 3 * meta_batch_size * num_iterations
  IN  /\ IsPrefix(seen, C10_Expected)
      /\ pc \in {"scale", "opt_step", "time"} => seen = C10_Expected
      /\ iteration <= num_iterations
      /\ (pc \in {"loop", "done"} /\ run > 1) =>
           /\ iteration = num_iterations
           /\ calls.zero_grad = num_iterations
           /\ calls.step = num_iterations
           /\ calls.sample = n
           /\ calls.fast_adapt = n
           /\ calls.evaluate = n
           /\ calls.adapt = n * adaptation_steps

C10_Terminates ==
  /\ []C10_Counts
  /\ (pc = "create") ~> (pc = "loop" \/ raised # "none")

\* a call of main with two iterations of two tasks and two adapt steps returned
C10_Witness ==
  /\ pc = "done"
  /\ run = 2
  /\ num_iterations = 2
  /\ meta_batch_size = 2
  /\ adaptation_steps = 2
  /\ calls.adapt = 24

\* -------------------------------------------------------------------------
\* C11: the running-time array holds cumulative elapsed time: entry i is the
\* clock reading taken after the optimizer step of iteration i minus the one
\* start reading taken before the first iteration of the call; the start
\* reading is not reset between iterations; under a non-decreasing clock the
\* entries are non-negative and non-decreasing in i.
C11_NonDecreasingClock == \A d \in ticks : d >= 0

C11_Entries(a, n) ==
  \A i, j \in 0..(n - 1) : i <= j => (0 <= a[i] /\ a[i] <= a[j])

C11_Monotone ==
  C11_NonDecreasingClock =>
    /\ C11_Entries(running_time, iteration)
    /\ \A r \in 1..Len(run_time) : C11_Entries(run_time[r], num_iterations)

C11_Readings ==
  /\ (pc = "create" /\ pc' = "iter") => start_time' = clock'
  /\ start_time' # start_time => pc = "create"
  /\ pc' = "time" => pc \in {"opt_step", "time"}
  /\ (pc = "time" /\ pc' = "iter") =>
       /\ running_time' = [running_time EXCEPT ![iteration] = clock' - start_time]
       /\ iteration' = iteration + 1
  /\ running_time' # running_time => pc \in {"create", "time"}

C11_CumulativeTime ==
  /\ []C11_Monotone
  /\ [][C11_Readings]_vars

\* two calls of two iterations have returned under a clock that never goes
\* back: in the first no time passed before the first entry was taken, the
\* second entry is more than one reading's advance, and the second call took
\* its own start reading
C11_Witness ==
  /\ C11_NonDecreasingClock
  /\ Len(run_time) = 2
  /\ num_iterations = 2
  /\ run_time[1][0] = 0
  /\ run_time[1][1] = MaxTick
  /\ run_time[2][0] = 1
  /\ run_time[2][1] = 1 + MaxTick
  /\ start_time > MaxTick

\* -------------------------------------------------------------------------
\* C12: the __main__ block runs main once per seed, in the order 42, 52, 62,
\* 72, 82, one run finishing before the next starts; after the loop each of the
\* three lists has five entries, the k-th entries of the three lists come from
\* the same run, the one with the k-th seed; each list is then written to its
\* own file exactly once.
C12_Lists == <<train_accuracy, test_accuracy_runs, run_time>>

C12_OneRunAtATime ==
  /\ seeds = <<42, 52, 62, 72, 82>>
  /\ Len(test_accuracy_runs) = Len(train_accuracy)
  /\ Len(run_time) = Len(train_accuracy)
  /\ Len(train_accuracy) <= Len(seeds)
  /\ Len(sampled) - Len(train_accuracy) \in {0, 1}
  /\ pc \in MainPcs => (Len(sampled) = run /\ Len(train_accuracy) = run - 1)
  /\ pc = "loop" => (Len(sampled) = run - 1 /\ Len(train_accuracy) = run - 1)

C12_Written ==
  /\ files # <<>> => Len(train_accuracy) = 5
  /\ \A k \in 1..Len(files) :
       /\ files[k].content = C12_Lists[k]
       /\ Len(files[k].content) = 5
       /\ \A j \in 1..Len(files) : files[j].name = files[k].name => j = k
  /\ pc = "done" => Len(files) = 3

C12_Steps ==
  /\ (pc = "loop" /\ pc' = "create") =>
       /\ rng' = [random |-> seeds[run] % RngMod, numpy |-> seeds[run] % RngMod,
                  torch |-> seeds[run] % RngMod, cuda |-> seeds[run] % RngMod]
       /\ run = Len(train_accuracy) + 1
  /\ (pc = "iter" /\ pc' = "loop") =>
       /\ train_accuracy' = Append(train_accuracy, training_accuracy)
       /\ test_accuracy_runs' = Append(test_accuracy_runs, test_accuracy)
       /\ run_time' = Append(run_time, running_time)
       /\ run' = run + 1
  /\ (run' # run \/ C12_Lists' # C12_Lists) => (pc = "iter" /\ pc' = "loop")
  /\ files' # files =>
       /\ run > Len(seeds)
       /\ Len(files') = Len(files) + 1
       /\ SubSeq(files', 1, Len(files)) = files

C12_SeedOrder ==
  /\ [](C12_OneRunAtATime /\ C12_Written)
  /\ [][C12_Steps]_vars

\* the script has finished: five runs, three files, and the runs of the first
\* two seeds differ in the tasks they drew and in their accuracy curves
C12_Witness ==
  /\ pc = "done"
  /\ Len(files) = 3
  /\ Len(train_accuracy) = 5
  /\ sampled[1] # sampled[2]
  /\ train_accuracy[1] # train_accuracy[2]
  /\ test_accuracy_runs[1] # test_accuracy_runs[2]
====
